---- MODULE Spec2Model ----
(***************************************************************************)
(* A model of glacier_to_standard.py, the cold-tier migrator: one          *)
(* sequential controller (main) issuing blocking S3 calls against one      *)
(* bucket.  Every S3 call is one step of the controller; every call may    *)
(* raise.  The bucket, the restore status of its objects and the in-flight *)
(* multipart upload are the part of S3 the script reads and writes.        *)
(*                                                                         *)
(* Object keys are strings; they are modelled as sequences of character    *)
(* codes so that the Prefix= filter of list_object_versions and the        *)
(* lexicographic order of listings can be computed.  Version ids are       *)
(* naturals: NullVid is S3's "null" version id (objects written while      *)
(* versioning is off), every other id is unique within the bucket.         *)
(*                                                                         *)
(* Sizes are counted in units of 1/MiB of a mebibyte (MiB = 1: one unit is *)
(* a mebibyte): the byte counts of the script (5 GiB = 5368709120) exceed  *)
(* the integers TLC computes with.  All size arithmetic of the script is   *)
(* integer arithmetic that is translated unchanged.  The chunking          *)
(* arithmetic is also checked in exact units for every small size and part *)
(* size (SpecChunk).                                                       *)
(***************************************************************************)
EXTENDS Integers, Sequences, FiniteSets, TLC

MiB == 1

\* glacier_to_standard.py:9   PART_SIZE = 500 * 1024 * 1024
PART_SIZE == 500 * MiB

\* glacier_to_standard.py:146   5 * 1024 * 1024 * 1024
COPY_LIMIT == 5 * 1024 * MiB

KeyA == <<1>>
KeyAB == <<1, 2>>
Keys == {KeyA, KeyAB}

NullVid == 0
Cold == {"GLACIER", "DEEP_ARCHIVE"}
Classes == Cold \cup {"STANDARD"}

Min(a, b) == IF a < b THEN a ELSE b

Max(a, b) == IF a > b THEN a ELSE b

(***************************************************************************)
(* Keys as strings: prefix test and lexicographic order.                   *)
(***************************************************************************)
IsPrefix(p, s) == Len(p) <= Len(s) /\ SubSeq(s, 1, Len(p)) = p

KeyLess(a, b) ==
    \E n \in 0..Len(a) :
        /\ n <= Len(b)
        /\ SubSeq(a, 1, n) = SubSeq(b, 1, n)
        /\ IF n = Len(a) THEN Len(b) > n
                         ELSE n < Len(b) /\ a[n + 1] < b[n + 1]

RECURSIVE SortedKeys(_)
SortedKeys(S) ==
    IF S = {} THEN <<>>
    ELSE LET m == CHOOSE k \in S : \A o \in S \ {k} : KeyLess(k, o)
         IN  <<m>> \o SortedKeys(S \ {m})

VARIABLES
    bucket,        \* S3: the object versions, [key, vid, cls, latest, ts]
    versioning,    \* S3: "Enabled", or "Off" (never enabled, or suspended)
    size,          \* S3: ContentLength of the current version of each key
    restore,       \* S3: Restore header of each key: "absent", "true", "false"
    s3upload,      \* S3: the in-flight multipart upload, [open, parts]
    pc,            \* the controller's position
    glacier_keys,  \* main: the candidate list
    i,             \* index of the running for loop (1-based)
    restored,      \* wait_for_restore: the dict, in insertion order
    mp,            \* multipart_copy: its locals [upload, j, parts]
    hist,          \* what the run did so far (calls issued, outcomes)
    chunk,         \* the chunking loop alone: [sz, part_size, j, ranges]
    disk,          \* provisioner: the file at config_path, [kind, sections]
    config,        \* provisioner: the RawConfigParser, section -> [present, opt]
    ppc,           \* provisioner: the script's position
    profile,       \* provisioner: index of the for loop over profile_names
    response,      \* provisioner: response["VpcEndpoints"] of the last call
    service_endpoints, \* provisioner: the dict of the last iteration
    phist          \* provisioner: what the run did so far

migvars == <<bucket, versioning, size, restore, s3upload, pc, glacier_keys, i,
             restored, mp, hist, chunk>>

provvars == <<disk, config, ppc, profile, response, service_endpoints, phist>>

vars == <<migvars, provvars>>

s3vars == <<bucket, versioning, size, restore, s3upload>>

(***************************************************************************)
(* The profile provisioner, generate_aws_profiles_sso_vpc.py: its static   *)
(* inputs, the configuration file and the endpoint records.                *)
(***************************************************************************)
profile_names == <<"prod", "dev">>

sso_info ==
    [p \in {"prod", "dev"} |->
        IF p = "prod"
        THEN [sso_start_url  |-> "https://your-sso-portal.awsapps.com/start",
              sso_region     |-> "us-east-1",
              sso_account_id |-> "123456789012",
              sso_role_name  |-> "ProdAdmin",
              region         |-> "us-east-1"]
        ELSE [sso_start_url  |-> "https://your-sso-portal.awsapps.com/start",
              sso_region     |-> "us-west-2",
              sso_account_id |-> "210987654321",
              sso_role_name  |-> "DevPowerUser",
              region         |-> "us-west-2"]]

services == <<"s3", "ec2", "sts">>

Range(seq) == {seq[n] : n \in 1..Len(seq)}

\* the keys the script sets from its static table
StaticKeys ==
    {"sso_start_url", "sso_region", "sso_account_id", "sso_role_name",
     "region", "output"}

\* the option names of the model: the static keys, one key per service, and
\* a key the script never sets
Options == StaticKeys \cup Range(services) \cup {"cli_pager"}

\* f"profile {profile}"
section_of(p) == <<"profile", p>>

\* the section names of the model: those of the static list and one more
SectionNames == {section_of("prod"), section_of("dev"), section_of("other")}

\* An option value is [lead, text]: a one-line value has lead "line"; the
\* value of an override is an empty first line and a continuation line
\* "endpoint_url = https://<text>", and lead is the white space in front of
\* the continuation line.
Absent == [lead |-> "absent", text |-> ""]

Line(t) == [lead |-> "line", text |-> t]

\* f"\n    endpoint_url = https://{service_endpoints[svc]}"
endpoint_url(host) == [lead |-> "sp4", text |-> host]

NoSection == [present |-> FALSE, opt |-> [o \in Options |-> Absent]]

EmptyConfig == [s \in SectionNames |-> NoSection]

\* RawConfigParser.write: str(value).replace("\n", "\n\t")
write_value(v) ==
    IF v.lead = "sp4" THEN [v EXCEPT !.lead = "tab_sp4"]
    ELSE IF v.lead = "none" THEN [v EXCEPT !.lead = "tab"]
    ELSE v

\* RawConfigParser.read: a continuation line is stripped before it is joined
\* to the value
read_value(v) ==
    IF v.lead \in {"line", "absent"} THEN v ELSE [v EXCEPT !.lead = "none"]

\* config.write(f): the text of the file for a parser state
write(c) ==
    [s \in SectionNames |->
        [present |-> c[s].present,
         opt |-> [o \in Options |-> write_value(c[s].opt[o])]]]

\* config.read(config_path): the parser state for the text of a file; a
\* file that does not exist is skipped
read(d) ==
    IF d.kind = "missing" THEN EmptyConfig
    ELSE [s \in SectionNames |->
            [present |-> d.sections[s].present,
             opt |-> [o \in Options |-> read_value(d.sections[s].opt[o])]]]

\* config.has_section / config.add_section / config.set
has_section(c, s) == c[s].present

add_section(c, s) == [c EXCEPT ![s].present = TRUE]

set(c, s, o, v) == [c EXCEPT ![s].opt[o] = v]

\* the host names and service names endpoints have in the model; a service
\* name is the list of its dot-separated pieces with the dots, so
\* "com.amazonaws.s3" is <<"com", ".", "amazonaws", ".", "s3">>
Hosts == {"vpce-1", "vpce-2"}

ServiceNames ==
    {<<"amazonaws", ".", "s3">>,
     <<"amazonaws", ".", "s3", ".", "fips">>,
     <<"amazonaws", ".", "ec2", ".", "fips">>}

\* one record of response["VpcEndpoints"]; DnsName is DnsEntries[0]["DnsName"].
\* The records of the model: every interface endpoint of the dotted S3
\* name, and one record of each other kind.
Endpoints ==
    {e \in [VpcEndpointType : {"Interface", "Gateway"},
            ServiceName : ServiceNames,
            DnsName : Hosts] :
        \/ e.VpcEndpointType = "Interface"
           /\ e.ServiceName = <<"amazonaws", ".", "s3", ".", "fips">>
        \/ e.VpcEndpointType = "Interface" /\ e.DnsName = "vpce-1"
        \/ e.VpcEndpointType = "Gateway" /\ e.DnsName = "vpce-2"
           /\ e.ServiceName = <<"amazonaws", ".", "s3", ".", "fips">>}

MaxEndpoints == 2

Responses == UNION {[1..n -> Endpoints] : n \in 0..MaxEndpoints}

\* Python's `pattern in name` on the pieces of a name
Contains(name, pattern) ==
    \E at \in 0..(Len(name) - Len(pattern)) :
        \A n \in 1..Len(pattern) : name[at + n] = pattern[n]

\* f".{svc}." in ep["ServiceName"]
Matches(svc, name) == Contains(name, <<".", svc, ".">>)

NoHost == ""

NoEndpoints == [svc \in Range(services) |-> NoHost]

\* the body of `for ep in response["VpcEndpoints"]` for record n
scan(resp, n, found) ==
    [svc \in Range(services) |->
        IF resp[n].VpcEndpointType = "Interface" /\ Matches(svc, resp[n].ServiceName)
        THEN resp[n].DnsName ELSE found[svc]]

RECURSIVE discover(_, _, _)
\* the loop over response["VpcEndpoints"], from record n on
discover(resp, n, found) ==
    IF n > Len(resp) THEN found
    ELSE discover(resp, n + 1, scan(resp, n, found))

RECURSIVE set_all(_, _, _, _)
\* config.set(section, key, value) for a list of <<key, value>> in turn
set_all(c, s, kvs, n) ==
    IF n > Len(kvs) THEN c
    ELSE set_all(set(c, s, kvs[n][1], kvs[n][2]), s, kvs, n + 1)

\* the six config.set calls of the static parameters
static_settings(p) ==
    <<<<"sso_start_url", Line(sso_info[p].sso_start_url)>>,
      <<"sso_region", Line(sso_info[p].sso_region)>>,
      <<"sso_account_id", Line(sso_info[p].sso_account_id)>>,
      <<"sso_role_name", Line(sso_info[p].sso_role_name)>>,
      <<"region", Line(sso_info[p].region)>>,
      <<"output", Line("json")>>>>

\* the config.set calls of `for svc in service_endpoints`
override_settings(found) ==
    LET RECURSIVE from(_)
        from(n) == IF n > Len(services) THEN <<>>
                   ELSE IF found[services[n]] = NoHost THEN from(n + 1)
                   ELSE <<<<services[n], endpoint_url(found[services[n]])>>>> \o from(n + 1)
    IN from(1)

\* the section of profile p after one iteration of the loop
update_section(c, p, found) ==
    LET s == section_of(p)
        c1 == IF has_section(c, s) THEN c ELSE add_section(c, s)
    IN set_all(c1, s, static_settings(p) \o override_settings(found), 1)

\* no file at config_path, and a file that cannot be parsed: their text is
\* never read
NoFile == [kind |-> "missing", sections |-> <<>>]

Malformed == [kind |-> "malformed", sections |-> <<>>]

NoPHist ==
    [before |-> NoFile,
     writes |-> 0,
     discovered |-> <<>>]

\* the provisioner is not running
ProvIdle ==
    /\ disk = NoFile
    /\ config = <<>>
    /\ ppc = "idle"
    /\ profile = 1
    /\ response = <<>>
    /\ service_endpoints = NoEndpoints
    /\ phist = NoPHist

(***************************************************************************)
(* S3 as the script uses it.                                               *)
(***************************************************************************)
VersionsOf(b, k) == {v \in b : v.key = k}

Current(b, k) == CHOOSE v \in VersionsOf(b, k) : v.latest

Exists(b, k) == \E v \in VersionsOf(b, k) : v.latest

RECURSIVE MaxOf(_)
MaxOf(S) ==
    IF S = {} THEN 0
    ELSE LET x == CHOOSE y \in S : TRUE IN Max(x, MaxOf(S \ {x}))

FreshVid(b) == 1 + MaxOf({v.vid : v \in b})

FreshTs(b, k) == 1 + MaxOf({v.ts : v \in VersionsOf(b, k)})

\* A successful write of key k with StorageClass STANDARD (copy_object, or
\* complete_multipart_upload): with versioning enabled the new version gets
\* a fresh id and the earlier ones become non-current; otherwise it gets
\* the null id and replaces the null version, if there is one.
PutStandard(b, k, mode) ==
    LET mine == VersionsOf(b, k)
        kept == IF mode = "Enabled" THEN mine
                ELSE {v \in mine : v.vid # NullVid}
        new  == [key |-> k,
                 vid |-> IF mode = "Enabled" THEN FreshVid(b) ELSE NullVid,
                 cls |-> "STANDARD", latest |-> TRUE, ts |-> FreshTs(b, k)]
    IN  (b \ mine) \cup {[v EXCEPT !.latest = FALSE] : v \in kept} \cup {new}

\* delete_object(Key=k, VersionId=vid) that returns: the version is removed
\* if key k has it; when the current version goes, the newest that is left
\* becomes current.
DeleteVersion(b, k, vid) ==
    LET hit  == {v \in b : v.key = k /\ v.vid = vid}
        rest == VersionsOf(b, k) \ hit
        top  == MaxOf({v.ts : v \in rest})
    IN  IF hit = {} THEN b
        ELSE IF \E v \in hit : v.latest
        THEN (b \ VersionsOf(b, k))
                 \cup {[v EXCEPT !.latest = (v.ts = top)] : v \in rest}
        ELSE b \ hit

\* list_object_versions(Prefix=p): one page, ordered by key, and for one
\* key from the newest version to the oldest.
ListedBefore(v, w) ==
    \/ KeyLess(v.key, w.key)
    \/ v.key = w.key /\ v.ts > w.ts

RECURSIVE Listing(_)
Listing(S) ==
    IF S = {} THEN <<>>
    ELSE LET m == CHOOSE v \in S : \A o \in S \ {v} : ListedBefore(v, o)
         IN  <<m>> \o Listing(S \ {m})

list_object_versions(b, p) == Listing({v \in b : IsPrefix(p, v.key)})

(***************************************************************************)
(* The buckets a run may start on: every key has a current version, and    *)
(* at most one older one.                                                  *)
(***************************************************************************)
IdOf(k, n) == 10 * Len(k) + n

\* the older version, when there is one: written before versioning was
\* enabled (the null id) or after it
OlderVersions == {[vid |-> NullVid, cls |-> "STANDARD"],
                  [vid |-> NullVid, cls |-> "GLACIER"],
                  [vid |-> 1, cls |-> "DEEP_ARCHIVE"]}

InitVersions(k) ==
    {{[key |-> k, vid |-> NullVid, cls |-> c, latest |-> TRUE, ts |-> 1]} :
        c \in {"GLACIER", "STANDARD"}}
    \cup
    {{[key |-> k, vid |-> IF o.vid = NullVid THEN NullVid ELSE IdOf(k, o.vid),
       cls |-> o.cls, latest |-> FALSE, ts |-> 1],
      [key |-> k, vid |-> IdOf(k, 2), cls |-> c, latest |-> TRUE, ts |-> 2]} :
        o \in OlderVersions, c \in {"GLACIER", "STANDARD"}}

SizeSet == {COPY_LIMIT, COPY_LIMIT + 1}

\* how many objects of the bucket may be larger than the copy limit
MaxLarge == 1

NoHist ==
    [calls       |-> {},
     restoreReqs |-> [k \in Keys |-> {}],
     observed    |-> {},
     copyPath    |-> [k \in Keys |-> "none"],
     copyOK      |-> [k \in Keys |-> "none"],
     deleted     |-> {},
     removed     |-> {},
     cleaned     |-> [k \in Keys |-> "none"],
     mpFail      |-> [k \in Keys |-> "none"],
     aborted     |-> {},
     completeWith |-> [k \in Keys |-> <<>>],
     uploadedThen |-> [k \in Keys |-> <<>>],
     sawCold     |-> FALSE,
     failed      |-> {},
     failedKeys  |-> {},
     visited     |-> {},
     rechecked   |-> FALSE,
     checked     |-> {},
     sweepErr    |-> {},
     prevErr     |-> {}]

NoChunk == [sz |-> 0, part_size |-> 0, j |-> 0, ranges |-> <<>>]

Init ==
    /\ \E a \in InitVersions(KeyA), ab \in InitVersions(KeyAB) :
           bucket = a \cup ab
    /\ versioning \in {"Enabled", "Off"}
    /\ size \in [Keys -> SizeSet]
    /\ Cardinality({k \in Keys : size[k] > COPY_LIMIT}) <= MaxLarge
    /\ restore \in [Keys -> {"absent", "true", "false"}]
    /\ \A k \in Keys : Current(bucket, k).cls # "GLACIER"
           => size[k] = COPY_LIMIT /\ restore[k] = "absent"
    /\ s3upload = [open |-> FALSE, parts |-> <<>>]
    /\ pc = "discover"
    /\ glacier_keys = <<>>
    /\ i = 1
    /\ restored = <<>>
    /\ mp = [upload |-> "unbound", j |-> 0, parts |-> <<>>]
    /\ hist = NoHist
    /\ chunk = NoChunk
    /\ ProvIdle

Called(h, names) == [h EXCEPT !.calls = @ \cup names]

Failed(h, k, stage) ==
    [h EXCEPT !.failed = @ \cup {stage}, !.failedKeys = @ \cup {k}]

Visited(h, k) == [h EXCEPT !.visited = @ \cup {k}]

(***************************************************************************)
(* get_glacier_objects and the empty-list return of main.  An exception of *)
(* the listing is caught nowhere: the process ends.                        *)
(***************************************************************************)
\* as IsCandidate, without the test of the storage class
IsCandidate_anyClass(v) == v.latest

\* as seen by list_objects_v2, which lists current versions:
\* obj.get("StorageClass") == "GLACIER"
IsCandidate(v) == v.latest /\ v.cls = "GLACIER"

get_glacier_objects ==
    /\ pc = "discover"
    /\ hist' = [Called(hist, {"list_objects_v2"})
                  EXCEPT !.sawCold = \E v \in bucket : v.latest /\ v.cls = "GLACIER"]
    /\ \/ /\ glacier_keys' = SortedKeys({v.key : v \in {w \in bucket : IsCandidate(w)}})
          /\ pc' = IF glacier_keys' = <<>> THEN "done" ELSE "initiate"
       \/ /\ pc' = "crashed"
          /\ UNCHANGED glacier_keys
    /\ UNCHANGED <<s3vars, i, restored, mp, chunk>>
    /\ UNCHANGED provvars

(***************************************************************************)
(* initiate_restore: one iteration of its for loop.                        *)
(***************************************************************************)
\* as NeedsRestore, without the test for a restore in progress
NeedsRestore_unlessDone(head) == ~(head = "false")

\* the else branch: neither 'ongoing-request="true"' nor 'ongoing-request="false"'
NeedsRestore(head) == ~(head = "true") /\ ~(head = "false")

initiate_restore ==
    /\ pc = "initiate"
    /\ LET key == glacier_keys[i] IN
         \/ \* head_object raises
            /\ hist' = Visited(Failed(Called(hist, {"head_object"}), key, "initiate"), key)
            /\ UNCHANGED restore
         \/ \* a restore is in progress, or done: log only
            /\ ~NeedsRestore(restore[key])
            /\ hist' = Visited(Called(hist, {"head_object"}), key)
            /\ UNCHANGED restore
         \/ \* restore_object
            /\ NeedsRestore(restore[key])
            /\ \/ /\ restore' = [restore EXCEPT ![key] = "true"]
                  /\ hist' = [Visited(Called(hist, {"head_object", "restore_object"}), key)
                                EXCEPT !.restoreReqs[key] = @ \cup {<<i, restore[key]>>}]
               \/ /\ UNCHANGED restore
                  /\ hist' = [Visited(Failed(Called(hist, {"head_object", "restore_object"}),
                                             key, "initiate"), key)
                                EXCEPT !.restoreReqs[key] = @ \cup {<<i, restore[key]>>}]
    /\ IF i < Len(glacier_keys)
       THEN i' = i + 1 /\ pc' = pc
       ELSE i' = 1 /\ pc' = "wait"
    /\ UNCHANGED <<bucket, versioning, size, s3upload, glacier_keys, restored, mp, chunk>>
    /\ UNCHANGED provvars

\* S3 finishes a restore that was requested.
s3_restore_completes ==
    /\ pc \in {"initiate", "wait"}
    /\ \E k \in Keys :
         /\ restore[k] = "true"
         /\ restore' = [restore EXCEPT ![k] = "false"]
    /\ UNCHANGED <<bucket, versioning, size, s3upload, pc, glacier_keys, i,
                   restored, mp, hist, chunk>>
    /\ UNCHANGED provvars

(***************************************************************************)
(* wait_for_restore: one iteration of the inner for loop, and the end of   *)
(* a sweep (the while test, with the sleep).                               *)
(***************************************************************************)
RestoredKeys(r) == {r[n].key : n \in 1..Len(r)}

\* key in restored
AlreadyMarked(key, r) == key \in RestoredKeys(r)

\* as IsRestored, testing only that the header is there
IsRestored_anyHeader(head) == head # "absent"

\* "Restore" in head and 'ongoing-request="false"' in head["Restore"]
IsRestored(head) == head = "false"

\* restored[key] = size
DictSet(r, key, sz) ==
    IF key \in RestoredKeys(r)
    THEN [n \in 1..Len(r) |-> IF r[n].key = key THEN [key |-> key, size |-> sz]
                                                ELSE r[n]]
    ELSE Append(r, [key |-> key, size |-> sz])

\* a head_object call of the sweep, on key
Polled(h, key, r) ==
    [Called(h, {"head_object"})
        EXCEPT !.checked = @ \cup {key},
               !.rechecked = @ \/ key \in RestoredKeys(r)]

\* a head_object call of the sweep that returned head
Answered(h, key, r, head) ==
    [Polled(h, key, r)
        EXCEPT !.observed = IF head = "false" THEN @ \cup {key} ELSE @]

wait_for_restore_check ==
    /\ pc = "wait"
    /\ i <= Len(glacier_keys)
    /\ LET key == glacier_keys[i] IN
         IF AlreadyMarked(key, restored)
         THEN UNCHANGED <<restored, hist>>
         ELSE \/ \* head_object raises
                 /\ hist' = [Failed(Polled(hist, key, restored), key, "wait")
                               EXCEPT !.sweepErr = @ \cup {key}]
                 /\ UNCHANGED restored
              \/ /\ IsRestored(restore[key])
                 /\ restored' = DictSet(restored, key, size[key])
                 /\ hist' = Answered(hist, key, restored, restore[key])
              \/ /\ ~IsRestored(restore[key])
                 /\ hist' = Answered(hist, key, restored, restore[key])
                 /\ UNCHANGED restored
    /\ i' = i + 1
    /\ UNCHANGED <<s3vars, pc, glacier_keys, mp, chunk>>
    /\ UNCHANGED provvars

\* as SweepAgain, ending the wait once some key is restored
SweepAgain_untilAny(r, keys) == Len(r) = 0

\* as SweepAgain, with <= for <
SweepAgain_atMost(r, keys) == Len(r) <= Len(keys)

\* len(restored) < len(keys)
SweepAgain(r, keys) == Len(r) < Len(keys)

wait_for_restore_sweep_end ==
    /\ pc = "wait"
    /\ i > Len(glacier_keys)
    /\ IF SweepAgain(restored, glacier_keys)
       THEN /\ pc' = "wait"
            /\ hist' = [Called(hist, {"sleep"})
                          EXCEPT !.checked = {}, !.sweepErr = {},
                                 !.prevErr = hist.sweepErr]
       ELSE /\ pc' = "transition"
            /\ hist' = [hist EXCEPT !.checked = {}, !.sweepErr = {}, !.prevErr = {}]
    /\ i' = 1
    /\ UNCHANGED <<s3vars, glacier_keys, restored, mp, chunk>>
    /\ UNCHANGED provvars

(***************************************************************************)
(* multipart_copy: the chunking arithmetic.                                *)
(***************************************************************************)
\* as part_count, rounding down
part_count_floor(sz, part_size) == sz \div part_size

\* math.ceil(size / part_size)
part_count(sz, part_size) ==
    IF sz % part_size = 0 THEN sz \div part_size ELSE sz \div part_size + 1

\* the range of iteration j of range(part_count): start, end
part_start(j, part_size) == j * part_size

\* as part_end, without the truncation of the last part
part_end_untruncated(j, sz, part_size) == part_start(j, part_size) + part_size - 1

part_end(j, sz, part_size) == Min(part_start(j, part_size) + part_size - 1, sz - 1)

ETagOf(first, last) == <<first, last>>

RECURSIVE TotalBytes(_)
TotalBytes(ps) ==
    IF ps = <<>> THEN 0
    ELSE (Head(ps).last - Head(ps).first + 1) + TotalBytes(Tail(ps))

\* the parts of the upload that a Parts list names, in the list's order
Named(up, plist) ==
    [n \in 1..Len(plist) |->
        CHOOSE u \in {up[m] : m \in 1..Len(up)} :
            u.PartNumber = plist[n].PartNumber]

\* complete_multipart_upload accepts a Parts list that is not empty, is in
\* ascending part order and names uploaded parts by their tags
Completable(up, plist) ==
    /\ plist # <<>>
    /\ \A n \in 1..Len(plist) - 1 : plist[n].PartNumber < plist[n + 1].PartNumber
    /\ \A n \in 1..Len(plist) : \E m \in 1..Len(up) :
           up[m].PartNumber = plist[n].PartNumber /\ up[m].ETag = plist[n].ETag

NoUpload == [open |-> FALSE, parts |-> <<>>]

\* an upload whose abort failed stays open in S3; the run never refers to
\* it again, and its parts are not followed further
Orphaned == [open |-> TRUE, parts |-> <<>>]

NoLocals == [upload |-> "unbound", j |-> 0, parts |-> <<>>]

\* the for loop of transition_to_standard moves to its next item
NextItem ==
    IF i < Len(restored)
    THEN pc' = "transition" /\ i' = i + 1
    ELSE pc' = "done" /\ i' = i

\* as UsesMultipart, with the limit itself on the multipart side
UsesMultipart_atLimit(sz) == sz >= COPY_LIMIT

\* size > 5 * 1024 * 1024 * 1024
UsesMultipart(sz) == sz > COPY_LIMIT

\* as on_copy_error, with the exception leaving the for loop
on_copy_error_abort == pc' = "done" /\ i' = i

\* copy_object raised: the except of transition_to_standard logs it, and
\* the for loop goes on
on_copy_error == NextItem

\* as on_multipart_error, returning without the abort call
on_multipart_error_noAbort == "cleanup"

\* the except handler of multipart_copy, entered with upload bound: it
\* calls abort_multipart_upload
on_multipart_error == "mp_abort"

(***************************************************************************)
(* transition_to_standard: the head of one iteration, up to the first S3   *)
(* call: copy_object, or multipart_copy with its create_multipart_upload.  *)
(* When create_multipart_upload raises, the handler's abort call reads the *)
(* unbound local upload: the NameError is caught by the bare except (the   *)
(* warning is logged, no abort call is made) and multipart_copy returns.   *)
(***************************************************************************)
transition_to_standard ==
    /\ pc = "transition"
    /\ LET key == restored[i].key
           sz  == restored[i].size
       IN
         IF UsesMultipart(sz)
         THEN /\ \/ /\ mp' = [upload |-> "bound", j |-> 0, parts |-> <<>>]
                    /\ s3upload' = [open |-> TRUE, parts |-> <<>>]
                    /\ hist' = [Called(hist, {"create_multipart_upload"})
                                  EXCEPT !.copyPath[key] = "multipart"]
                    /\ pc' = "mp_part"
                 \/ /\ mp' = NoLocals
                    /\ UNCHANGED s3upload
                    /\ hist' = [Failed(Called(hist, {"create_multipart_upload"}),
                                       key, "create")
                                  EXCEPT !.copyPath[key] = "multipart",
                                         !.copyOK[key] = "failed",
                                         !.mpFail[key] = "create"]
                    /\ pc' = "cleanup"
              /\ UNCHANGED <<bucket, size, restore, i>>
         ELSE /\ \/ /\ restore[key] = "false"
                    /\ bucket' = PutStandard(bucket, key, versioning)
                    /\ restore' = [restore EXCEPT ![key] = "absent"]
                    /\ hist' = [Called(hist, {"copy_object"})
                                  EXCEPT !.copyPath[key] = "single",
                                         !.copyOK[key] = "ok"]
                    /\ pc' = "cleanup"
                    /\ UNCHANGED i
                 \/ /\ hist' = [Failed(Called(hist, {"copy_object"}), key, "copy")
                                  EXCEPT !.copyPath[key] = "single",
                                         !.copyOK[key] = "failed"]
                    /\ on_copy_error
                    /\ UNCHANGED <<bucket, restore>>
              /\ UNCHANGED <<size, s3upload, mp>>
    /\ UNCHANGED <<versioning, glacier_keys, restored, chunk>>
    /\ UNCHANGED provvars

(***************************************************************************)
(* multipart_copy: one upload_part_copy of the for loop.                   *)
(***************************************************************************)
multipart_copy_part ==
    /\ pc = "mp_part"
    /\ LET key   == restored[i].key
           sz    == restored[i].size
           first == part_start(mp.j, PART_SIZE)
           last  == part_end(mp.j, sz, PART_SIZE)
       IN
         /\ mp.j < part_count(sz, PART_SIZE)
         /\ \/ \* S3 copies the range, which must lie within the source
               /\ restore[key] = "false"
               /\ 0 <= first /\ first <= last /\ last <= size[key] - 1
               /\ s3upload' = [s3upload EXCEPT !.parts =
                      Append(@, [PartNumber |-> mp.j + 1, first |-> first,
                                 last |-> last, ETag |-> ETagOf(first, last)])]
               /\ mp' = [mp EXCEPT !.j = @ + 1,
                                   !.parts = Append(@, [ETag |-> ETagOf(first, last),
                                                        PartNumber |-> mp.j + 1])]
               /\ hist' = Called(hist, {"upload_part_copy"})
               /\ pc' = pc
            \/ /\ hist' = [Failed(Called(hist, {"upload_part_copy"}), key, "part")
                             EXCEPT !.copyOK[key] = "failed",
                                    !.mpFail[key] = "part"]
               /\ pc' = on_multipart_error
               /\ UNCHANGED <<s3upload, mp>>
    /\ UNCHANGED <<bucket, versioning, size, restore, glacier_keys, i, restored, chunk>>
    /\ UNCHANGED provvars

(***************************************************************************)
(* multipart_copy: complete_multipart_upload, after the loop.              *)
(***************************************************************************)
multipart_copy_complete ==
    /\ pc = "mp_part"
    /\ LET key == restored[i].key
           sz  == restored[i].size
       IN
         /\ mp.j >= part_count(sz, PART_SIZE)
         /\ \/ /\ Completable(s3upload.parts, mp.parts)
               /\ bucket' = PutStandard(bucket, key, versioning)
               /\ size' = [size EXCEPT ![key] =
                              TotalBytes(Named(s3upload.parts, mp.parts))]
               /\ restore' = [restore EXCEPT ![key] = "absent"]
               /\ s3upload' = NoUpload
               /\ hist' = [Called(hist, {"complete_multipart_upload"})
                             EXCEPT !.copyOK[key] = "ok",
                                    !.completeWith[key] = mp.parts,
                                    !.uploadedThen[key] = s3upload.parts]
               /\ mp' = NoLocals
               /\ pc' = "cleanup"
            \/ /\ hist' = [Failed(Called(hist, {"complete_multipart_upload"}),
                                  key, "complete")
                             EXCEPT !.copyOK[key] = "failed",
                                    !.mpFail[key] = "complete",
                                    !.completeWith[key] = mp.parts,
                                    !.uploadedThen[key] = s3upload.parts]
               /\ pc' = on_multipart_error
               /\ UNCHANGED <<bucket, size, restore, s3upload, mp>>
    /\ UNCHANGED <<versioning, glacier_keys, i, restored, chunk>>
    /\ UNCHANGED provvars

(***************************************************************************)
(* multipart_copy: the except handler, with upload bound.  A failure of    *)
(* abort_multipart_upload is logged as a warning; the function returns.    *)
(***************************************************************************)
multipart_copy_abort ==
    /\ pc = "mp_abort"
    /\ LET key == restored[i].key IN
         \/ /\ s3upload' = NoUpload
            /\ hist' = [Called(hist, {"abort_multipart_upload"})
                          EXCEPT !.aborted = @ \cup {key}]
         \/ /\ s3upload' = Orphaned
            /\ hist' = [Failed(Called(hist, {"abort_multipart_upload"}), key, "abort")
                          EXCEPT !.aborted = @ \cup {key}]
    /\ mp' = NoLocals
    /\ pc' = "cleanup"
    /\ UNCHANGED <<bucket, versioning, size, restore, glacier_keys, i, restored, chunk>>
    /\ UNCHANGED provvars

(***************************************************************************)
(* cleanup_glacier_versions, whole: the listing, then one delete_object    *)
(* per listed version that is not the latest and is in a cold class, each  *)
(* with Key=key and the listed version's id.  Any call may raise, which    *)
(* ends the function (the error is logged).  The try block of              *)
(* transition_to_standard ends with it, and the loop moves on.             *)
(***************************************************************************)
IsStale(v) == ~v.latest /\ v.cls \in Cold

delete_targets(b, key) == SelectSeq(list_object_versions(b, key), IsStale)

RECURSIVE DeleteFirst(_, _, _, _)
DeleteFirst(b, key, targets, n) ==
    IF n = 0 THEN b
    ELSE DeleteVersion(DeleteFirst(b, key, targets, n - 1), key, targets[n].vid)

\* the versions that the first n delete calls remove, as they were listed
Removed(b, key, targets, n) ==
    {v \in b : v.key = key /\ \E m \in 1..n : v.vid = targets[m].vid}

cleanup_glacier_versions ==
    /\ pc = "cleanup"
    /\ LET key     == restored[i].key
           targets == delete_targets(bucket, key)
           issued(n) == {[key |-> key, listed |-> targets[m]] : m \in 1..n}
       IN
         \/ \* list_object_versions raises
            /\ hist' = [Failed(Called(hist, {"list_object_versions"}), key, "cleanup")
                          EXCEPT !.cleaned[key] = "error"]
            /\ UNCHANGED bucket
         \/ \* every delete_object returns
            /\ bucket' = DeleteFirst(bucket, key, targets, Len(targets))
            /\ hist' = [Called(hist, {"list_object_versions"} \cup
                                 IF targets = <<>> THEN {} ELSE {"delete_object"})
                          EXCEPT !.cleaned[key] = "ok",
                                 !.deleted = @ \cup issued(Len(targets)),
                                 !.removed = @ \cup
                                     Removed(bucket, key, targets, Len(targets))]
         \/ \* the delete_object after the first n raises
            \E n \in 0..Len(targets) - 1 :
                /\ bucket' = DeleteFirst(bucket, key, targets, n)
                /\ hist' = [Failed(Called(hist, {"list_object_versions", "delete_object"}),
                                   key, "cleanup")
                              EXCEPT !.cleaned[key] = "error",
                                     !.deleted = @ \cup issued(n + 1),
                                     !.removed = @ \cup Removed(bucket, key, targets, n)]
    /\ NextItem
    /\ UNCHANGED <<versioning, size, restore, s3upload, glacier_keys, restored, mp, chunk>>
    /\ UNCHANGED provvars

(***************************************************************************)
(* The chunking loop of multipart_copy on its own, for any size and part   *)
(* size, in exact units.                                                   *)
(***************************************************************************)
MaxSize == 12
MaxPartSize == 5

ChunkInit ==
    /\ \E sz \in 1..MaxSize, c \in 1..MaxPartSize :
           chunk = [sz |-> sz, part_size |-> c, j |-> 0, ranges |-> <<>>]
    /\ bucket = {}
    /\ versioning = "Off"
    /\ size = [k \in Keys |-> 0]
    /\ restore = [k \in Keys |-> "absent"]
    /\ s3upload = NoUpload
    /\ pc = "chunking"
    /\ glacier_keys = <<>>
    /\ i = 1
    /\ restored = <<>>
    /\ mp = NoLocals
    /\ hist = NoHist
    /\ ProvIdle

chunk_step ==
    /\ pc = "chunking"
    /\ chunk.j < part_count(chunk.sz, chunk.part_size)
    /\ chunk' = [chunk EXCEPT
           !.j = @ + 1,
           !.ranges = Append(@, [PartNumber |-> chunk.j + 1,
                                 first |-> part_start(chunk.j, chunk.part_size),
                                 last |-> part_end(chunk.j, chunk.sz, chunk.part_size)])]
    /\ UNCHANGED <<bucket, versioning, size, restore, s3upload, pc, glacier_keys,
                   i, restored, mp, hist>>
    /\ UNCHANGED provvars

NextChunk == chunk_step

SpecChunk == ChunkInit /\ [][NextChunk]_vars

Next ==
    \/ get_glacier_objects
    \/ initiate_restore
    \/ s3_restore_completes
    \/ wait_for_restore_check
    \/ wait_for_restore_sweep_end
    \/ transition_to_standard
    \/ multipart_copy_part
    \/ multipart_copy_complete
    \/ multipart_copy_abort
    \/ cleanup_glacier_versions

Spec == Init /\ [][Next]_vars

Candidates == {glacier_keys[n] : n \in 1..Len(glacier_keys)}

Copying == {"transition", "mp_part", "mp_abort", "cleanup"}

(***************************************************************************)
(* C1: a copy of key k (copy_object, or create_multipart_upload as the     *)
(* first step of multipart_copy) is issued only after a head_object call   *)
(* of wait_for_restore, in this run, returned k's restore as completed.    *)
(***************************************************************************)
C1_CopyOnlyAfterObservedRestore ==
    \A k \in Keys : hist.copyPath[k] # "none" => k \in hist.observed

C1_Witness ==
    \E k, l \in Keys :
        /\ hist.copyPath[k] = "single" /\ hist.copyPath[l] = "multipart"
        /\ {k, l} \subseteq hist.observed

(***************************************************************************)
(* C2: delete_object calls for key k are issued only after a successful    *)
(* copy of k: when the copy of k failed (copy_object, or any step of the   *)
(* multipart copy), no version of k is deleted.                            *)
(***************************************************************************)
C2_DeleteOnlyAfterCopy ==
    \A d \in hist.deleted : hist.copyOK[d.key] = "ok"

(***************************************************************************)
(* C3: once the copy of k succeeded and cleanup_glacier_versions ran for k *)
(* with no call raising, no version of k is left in GLACIER or             *)
(* DEEP_ARCHIVE, and no version of k of another class was removed.         *)
(***************************************************************************)
C3_NoColdLeft ==
    \A k \in Keys :
        hist.copyOK[k] = "ok" /\ hist.cleaned[k] = "ok"
            => \A v \in VersionsOf(bucket, k) : v.cls \notin Cold

C3_CleanTransition ==
    /\ C3_NoColdLeft
    /\ \A k \in Keys :
        hist.copyOK[k] = "ok" /\ hist.cleaned[k] = "ok"
            => \A v \in hist.removed : v.key = k /\ ~v.latest => v.cls \in Cold

(***************************************************************************)
(* C4: restore_object is issued for a key only when head_object showed     *)
(* neither a restore in progress nor a completed one, and at most once per *)
(* key in a run.                                                           *)
(***************************************************************************)
C4_RestoreRequestedOnce ==
    \A k \in Keys :
        /\ Cardinality(hist.restoreReqs[k]) <= 1
        /\ \A r \in hist.restoreReqs[k] : r[2] = "absent"

C4_Witness ==
    /\ pc = "wait"
    /\ "initiate" \notin hist.failed
    /\ \E k, l \in Candidates :
        /\ hist.restoreReqs[k] # {}
        /\ hist.restoreReqs[l] = {} /\ restore[l] = "true"

(***************************************************************************)
(* C5: wait_for_restore returns only when every candidate key was observed *)
(* restored, with exactly the candidate keys in the mapping; a marked key  *)
(* is never checked again nor unmarked; a key whose check raised stays     *)
(* unmarked and is checked again in the next sweep.                        *)
(***************************************************************************)
C5_ReturnsAll ==
    pc \in Copying \cup {"done"} /\ glacier_keys # <<>>
        => /\ RestoredKeys(restored) = Candidates
           /\ Len(restored) = Len(glacier_keys)
           /\ Candidates \subseteq hist.observed

C5_Retry ==
    /\ ~hist.rechecked
    /\ hist.sweepErr \cap RestoredKeys(restored) = {}
    /\ (hist.prevErr \ hist.checked) \cap RestoredKeys(restored) = {}
    /\ pc = "wait" /\ i > Len(glacier_keys) => hist.prevErr \subseteq hist.checked

C5_WaitForRestore ==
    /\ [](C5_ReturnsAll /\ C5_Retry)
    /\ [][RestoredKeys(restored) \subseteq RestoredKeys(restored')]_vars

C5_Witness ==
    /\ pc = "transition"
    /\ Len(glacier_keys) = 2
    /\ {"wait", "sleep"} \subseteq hist.failed \cup hist.calls

(***************************************************************************)
(* The run under the scheduling it has: the controller is one thread whose *)
(* every blocking call returns or raises, so it always takes its next      *)
(* step; S3 finishes a restore it accepted; a status check of a restored   *)
(* key that is repeated for ever does not raise for ever.                  *)
(***************************************************************************)
marks(k) ==
    /\ wait_for_restore_check
    /\ k \notin RestoredKeys(restored)
    /\ k \in RestoredKeys(restored')

SpecLive ==
    /\ Spec
    /\ WF_vars(Next)
    /\ WF_vars(s3_restore_completes)
    /\ \A k \in Keys : SF_vars(marks(k))

(***************************************************************************)
(* C6: a failure for one key at a stage after discovery does not abort the *)
(* run; the controller goes on to process every other candidate key        *)
(* through its remaining stages.                                           *)
(***************************************************************************)
Processed(k) ==
    /\ hist.copyPath[k] # "none"
    /\ hist.cleaned[k] # "none" \/ (hist.copyPath[k] = "single" /\ hist.copyOK[k] = "failed")

C6_RunGoesOn ==
    \A k, l \in Keys :
        (k # l /\ k \in hist.failedKeys /\ l \in Candidates)
            ~> (Processed(l) \/ l \in hist.failedKeys)

\* C6 as far as it holds: a failure never ends the run.  Every candidate
\* key is visited by initiate_restore, and a run that ends has taken every
\* candidate key through its copy and, unless copy_object raised, through
\* its cleanup.
C6_NoAbort ==
    /\ pc = "crashed" => glacier_keys = <<>> /\ hist.failed = {}
    /\ pc \in {"wait", "done"} \cup Copying /\ glacier_keys # <<>>
           => hist.visited = Candidates
    /\ pc = "done" /\ glacier_keys # <<>> => \A k \in Candidates : Processed(k)

C6_Witness ==
    /\ pc = "done"
    /\ \E k, l \in Candidates :
        /\ k # l
        /\ hist.copyOK[k] = "failed"
        /\ {"initiate", "wait", "copy"} \subseteq hist.failed
        /\ hist.copyOK[l] = "ok" /\ hist.cleaned[l] = "ok"

(***************************************************************************)
(* C7: on any failure in the multipart sequence of key k (create, a part   *)
(* copy, complete) multipart_copy calls abort_multipart_upload; a failure  *)
(* of the abort is swallowed, and multipart_copy never raises.             *)
(***************************************************************************)
\* multipart_copy(k) has returned
Returned(k) ==
    /\ hist.copyPath[k] = "multipart"
    /\ ~(pc \in {"mp_part", "mp_abort"} /\ restored[i].key = k)

C7_AbortOnAnyFailure ==
    \A k \in Keys :
        Returned(k) /\ hist.mpFail[k] # "none" => k \in hist.aborted

\* C7 as the code has it: the abort call is made when a part copy or the
\* complete call failed, and not when create_multipart_upload failed (no
\* upload exists); in every case multipart_copy returns to its caller,
\* which goes on to the cleanup of k.
C7_AbortWhenUploadExists ==
    \A k \in Keys :
        Returned(k) =>
            /\ hist.mpFail[k] \in {"part", "complete"} => k \in hist.aborted
            /\ hist.mpFail[k] \in {"create", "none"} => k \notin hist.aborted
            /\ hist.cleaned[k] # "none" \/ (pc = "cleanup" /\ restored[i].key = k)

C7_Witness ==
    /\ pc = "done"
    /\ \E k \in Keys :
        /\ hist.mpFail[k] = "complete"
        /\ k \in hist.aborted
        /\ "abort" \in hist.failed
        /\ hist.cleaned[k] # "none"

(***************************************************************************)
(* C8: for every size S >= 1 and part size C the loop issues ceil(S/C)     *)
(* part copies; part n covers bytes (n-1)*C .. min(n*C - 1, S - 1): the    *)
(* ranges are contiguous, do not overlap, cover 0 .. S-1 and end at S-1.   *)
(***************************************************************************)
\* the least n with n * C >= S
Ceil(S, C) == CHOOSE n \in 0..S : n * C >= S /\ \A m \in 0..(n - 1) : m * C < S

C8_Chunking ==
    LET S  == chunk.sz
        C  == chunk.part_size
        rs == chunk.ranges
    IN  pc = "chunking" =>
        /\ \A n \in 1..Len(rs) :
              /\ rs[n].PartNumber = n
              /\ rs[n].first = (n - 1) * C
              /\ rs[n].last = Min(n * C - 1, S - 1)
              /\ rs[n].first <= rs[n].last
              /\ n > 1 => rs[n].first = rs[n - 1].last + 1
        /\ Len(rs) <= Ceil(S, C)
        /\ chunk.j >= part_count(S, C) =>
              /\ Len(rs) = Ceil(S, C)
              /\ rs[1].first = 0
              /\ rs[Len(rs)].last = S - 1
              /\ TotalBytes(rs) = S

C8_Witness ==
    /\ pc = "chunking"
    /\ chunk.j >= part_count(chunk.sz, chunk.part_size)
    /\ Len(chunk.ranges) = 3
    /\ chunk.sz % chunk.part_size # 0

(***************************************************************************)
(* C9: the copy path is chosen by size alone: up to 5 GiB, 5 GiB included, *)
(* one copy_object call and no multipart call; above it the multipart path *)
(* and no copy_object call.                                                *)
(***************************************************************************)
C9_PathBySize ==
    \A n \in 1..Len(restored) :
        LET k == restored[n].key IN
          /\ hist.copyPath[k] = "single" => restored[n].size <= COPY_LIMIT
          /\ hist.copyPath[k] = "multipart" => restored[n].size >= COPY_LIMIT + 1
          /\ hist.mpFail[k] # "none" \/ k \in hist.aborted
                => hist.copyPath[k] = "multipart"

C9_Witness ==
    \E n, m \in 1..Len(restored) :
        /\ restored[n].size = COPY_LIMIT
        /\ hist.copyPath[restored[n].key] = "single"
        /\ restored[m].size = COPY_LIMIT + 1
        /\ hist.copyPath[restored[m].key] = "multipart"

(***************************************************************************)
(* C10: a run on a bucket with no object in the GLACIER class has an empty *)
(* candidate list and ends at once, with no restore request, no status     *)
(* poll, no copy and no delete; a fully successful run leaves such a       *)
(* bucket.                                                                 *)
(***************************************************************************)
FullySuccessful ==
    /\ pc = "done"
    /\ \A k \in Candidates : hist.copyOK[k] = "ok" /\ hist.cleaned[k] = "ok"

C10_NothingToDo ==
    /\ pc # "discover" /\ ~hist.sawCold =>
          /\ glacier_keys = <<>>
          /\ pc \in {"done", "crashed"}
          /\ hist.calls = {"list_objects_v2"}
          /\ hist.deleted = {} /\ hist.observed = {}
          /\ \A k \in Keys : hist.restoreReqs[k] = {} /\ hist.copyPath[k] = "none"
    /\ FullySuccessful => ~\E v \in bucket : v.latest /\ v.cls = "GLACIER"

C10_Witness ==
    /\ pc = "done"
    /\ ~hist.sawCold
    /\ \E v \in bucket : v.cls \in Cold

(***************************************************************************)
(* The scenario of one 10 MiB and one 6 GiB object in GLACIER, both        *)
(* restorable immediately: S3 finishes a restore it accepted before the    *)
(* controller's next call.                                                 *)
(***************************************************************************)
SmallSize == 10 * MiB
LargeSize == 6 * 1024 * MiB

ScenarioInit ==
    /\ versioning \in {"Enabled", "Off"}
    /\ bucket = {[key |-> k,
                  vid |-> IF versioning = "Enabled" THEN IdOf(k, 1) ELSE NullVid,
                  cls |-> "GLACIER", latest |-> TRUE, ts |-> 1] : k \in Keys}
    /\ size = [k \in Keys |-> IF k = KeyA THEN SmallSize ELSE LargeSize]
    /\ restore = [k \in Keys |-> "absent"]
    /\ s3upload = NoUpload
    /\ pc = "discover"
    /\ glacier_keys = <<>>
    /\ i = 1
    /\ restored = <<>>
    /\ mp = NoLocals
    /\ hist = NoHist
    /\ chunk = NoChunk
    /\ ProvIdle

RestorePending == \E k \in Keys : restore[k] = "true"

NextScenario ==
    \/ s3_restore_completes
    \/ /\ ~RestorePending
       /\ \/ get_glacier_objects
          \/ initiate_restore
          \/ wait_for_restore_check
          \/ wait_for_restore_sweep_end
          \/ transition_to_standard
          \/ multipart_copy_part
          \/ multipart_copy_complete
          \/ multipart_copy_abort
          \/ cleanup_glacier_versions

SpecScenario == ScenarioInit /\ [][NextScenario]_vars

\* the number of bytes of part n of a Parts list (the tag of a part is the
\* range it copied)
PartBytes(plist, n) == plist[n].ETag[2] - plist[n].ETag[1] + 1

\* the run of the scenario in which no call raised, at its end, but for the
\* size of the last part
ScenarioRun(lastBytes) ==
    pc = "done" /\ hist.failed = {} =>
        /\ \A k \in Keys : Cardinality(hist.restoreReqs[k]) = 1
        /\ "sleep" \notin hist.calls
        /\ hist.observed = Keys
        /\ hist.copyPath[KeyA] = "single" /\ hist.copyOK[KeyA] = "ok"
        /\ hist.copyPath[KeyAB] = "multipart" /\ hist.copyOK[KeyAB] = "ok"
        /\ hist.completeWith[KeyA] = <<>>
        /\ LET plist == hist.completeWith[KeyAB] IN
             /\ Len(plist) = 13
             /\ \A n \in 1..12 : PartBytes(plist, n) = 500 * MiB
             /\ PartBytes(plist, 13) \in lastBytes
             /\ \A n \in 1..13 : plist[n].PartNumber = n
        /\ size = [k \in Keys |-> IF k = KeyA THEN SmallSize ELSE LargeSize]
        /\ \A v \in bucket : v.cls = "STANDARD" /\ v.latest
        /\ versioning = "Enabled" =>
              {[key |-> d.key, vid |-> d.listed.vid] : d \in hist.deleted}
                  = {[key |-> k, vid |-> IdOf(k, 1)] : k \in Keys}

(***************************************************************************)
(* C11: in the scenario two restore requests are issued, one sweep         *)
(* confirms both with no sleep, the 10 MiB object is copied by one         *)
(* copy_object call, the 6 GiB object by 13 part copies in sequence (12 of *)
(* 500 MiB and a last one of about 296 MiB) and one complete call, and the *)
(* old cold versions of both keys are deleted.                             *)
(***************************************************************************)
C11_Scenario == ScenarioRun((286 * MiB)..(306 * MiB))

\* C11 with the last part as the code cuts it: 6144 - 12 * 500 = 144 MiB
C11_ScenarioLast144 == ScenarioRun({144 * MiB})

C11_Witness ==
    /\ pc = "done" /\ hist.failed = {}
    /\ versioning = "Enabled"
    /\ Len(hist.completeWith[KeyAB]) = 13
    /\ Cardinality(hist.deleted) = 2

(***************************************************************************)
(* The run of the profile provisioner.                                     *)
(***************************************************************************)
\* a section as an earlier run of the script wrote it
EarlierRun(p, found) == write(update_section(EmptyConfig, p, found))[section_of(p)]

Found(svc, host) == [NoEndpoints EXCEPT ![svc] = host]

\* a section of a profile that is not in the static list
OtherSection ==
    [NoSection EXCEPT !.present = TRUE,
                      !.opt["region"] = Line("eu-west-1"),
                      !.opt["s3"] = write_value(endpoint_url("vpce-9"))]

\* the files the run may find at config_path
InitDisks ==
    {NoFile, Malformed}
    \cup
    {[kind |-> "file",
      sections |-> [s \in SectionNames |->
                       IF s = section_of("prod") THEN prod
                       ELSE IF s = section_of("dev") THEN dev ELSE other]] :
        prod \in {NoSection,
                  EarlierRun("prod", Found("s3", "vpce-1")),
                  [EarlierRun("prod", NoEndpoints)
                       EXCEPT !.opt["cli_pager"] = Line("less"),
                              !.opt["sso_role_name"] = Line("ReadOnly")]},
        dev \in {NoSection, EarlierRun("dev", Found("ec2", "vpce-2"))},
        other \in {NoSection, OtherSection}}

ProvInit ==
    /\ disk \in InitDisks
    /\ config = EmptyConfig
    /\ ppc = "start"
    /\ profile = 1
    /\ response = <<>>
    /\ service_endpoints = NoEndpoints
    /\ phist = [NoPHist EXCEPT !.before = disk]
    /\ bucket = {}
    /\ versioning = "Off"
    /\ size = [k \in Keys |-> 0]
    /\ restore = [k \in Keys |-> "absent"]
    /\ s3upload = NoUpload
    /\ pc = "idle"
    /\ glacier_keys = <<>>
    /\ i = 1
    /\ restored = <<>>
    /\ mp = NoLocals
    /\ hist = NoHist
    /\ chunk = NoChunk

\* config = configparser.RawConfigParser(); config.read(config_path)
read_config ==
    /\ ppc = "start"
    /\ IF disk.kind = "malformed"
       THEN ppc' = "raised" /\ UNCHANGED config
       ELSE ppc' = "loop" /\ config' = read(disk)
    /\ UNCHANGED <<disk, profile, response, service_endpoints, phist>>
    /\ UNCHANGED migvars

\* as loop_done, leaving the loop after its first iteration
loop_done_early(p) == p > 1

\* `for profile in profile_names` has run out
loop_done(p) == p > Len(profile_names)

\* one iteration of `for profile in profile_names`
provision_profile ==
    /\ ppc = "loop"
    /\ ~loop_done(profile)
    /\ \/ \E resp \in Responses :
            LET found == discover(resp, 1, NoEndpoints) IN
            /\ response' = resp
            /\ service_endpoints' = found
            /\ config' = update_section(config, profile_names[profile], found)
            /\ profile' = profile + 1
            /\ phist' = [phist EXCEPT !.discovered = Append(@, found)]
            /\ ppc' = ppc
       \/ \* boto3.Session, session.client or describe_vpc_endpoints raises
          /\ ppc' = "raised"
          /\ UNCHANGED <<config, profile, response, service_endpoints, phist>>
    /\ UNCHANGED disk
    /\ UNCHANGED migvars

\* with config_path.open("w") as f: config.write(f)
write_config ==
    /\ ppc = "loop"
    /\ loop_done(profile)
    /\ \/ /\ disk' = [kind |-> "file", sections |-> write(config)]
          /\ phist' = [phist EXCEPT !.writes = @ + 1]
          /\ ppc' = "done"
       \/ \* the file cannot be opened for writing
          /\ ppc' = "raised"
          /\ UNCHANGED <<disk, phist>>
    /\ UNCHANGED <<config, profile, response, service_endpoints>>
    /\ UNCHANGED migvars

NextProv ==
    \/ read_config
    \/ provision_profile
    \/ write_config

SpecProv == ProvInit /\ [][NextProv]_vars

\* the settings of profile number n in the file, as a parser reads them
Settings(n) == read(disk)[section_of(profile_names[n])]

\* the value the script gives option o of profile number n in this run, if
\* it gives one
Expected(n, o) ==
    LET p == profile_names[n]  found == phist.discovered[n] IN
    IF o = "output" THEN Line("json")
    ELSE IF o \in StaticKeys THEN Line(sso_info[p][o])
    ELSE IF o \in Range(services) /\ found[o] # NoHost
         THEN read_value(endpoint_url(found[o]))
    ELSE Absent

(***************************************************************************)
(* C12: after a successful run, the section of every profile of the static *)
(* list holds exactly the profile's static parameters and one override per *)
(* endpoint discovered in this run, no other key, and every section not    *)
(* named by the static list is unchanged.                                  *)
(***************************************************************************)
C12_ExactSections ==
    ppc = "done" =>
        /\ \A n \in 1..Len(profile_names) :
              /\ Settings(n).present
              /\ \A o \in Options : Settings(n).opt[o] = Expected(n, o)
        /\ read(disk)[section_of("other")] = read(phist.before)[section_of("other")]

\* what does hold of a successful run: every key the script sets has its
\* value of this run, and the other sections are as they were
C12_SetKeysHold ==
    ppc = "done" =>
        /\ \A n \in 1..Len(profile_names) :
              /\ Settings(n).present
              /\ \A o \in Options :
                    Expected(n, o) # Absent => Settings(n).opt[o] = Expected(n, o)
        /\ read(disk)[section_of("other")] = read(phist.before)[section_of("other")]

\* the records of the last response that are of type "Interface" and whose
\* service name contains the identifier svc
Attributed(svc) ==
    {n \in 1..Len(response) :
        /\ response[n].VpcEndpointType = "Interface"
        /\ Contains(response[n].ServiceName, <<svc>>)}

\* the first of a set of positions
First(S) == CHOOSE n \in S : \A m \in S : n <= m

\* an iteration of the loop has just scanned `response`
Scanned == ppc = "loop" /\ Len(phist.discovered) > 0

(***************************************************************************)
(* C13: a service has an entry in service_endpoints if and only if some    *)
(* endpoint of type "Interface" has a service name that contains the       *)
(* service identifier, and the entry is the host name of the first such    *)
(* endpoint in the order of the response.                                  *)
(***************************************************************************)
C13_Attribution ==
    Scanned =>
        \A svc \in Range(services) :
            /\ service_endpoints[svc] # NoHost <=> Attributed(svc) # {}
            /\ Attributed(svc) # {} =>
                  service_endpoints[svc] = response[First(Attributed(svc))].DnsName

\* the first half of C13 alone fails: an interface endpoint whose service
\* name ends with the identifier gives no entry
C13_EntryIffSubstring ==
    Scanned =>
        \A svc \in Range(services) :
            service_endpoints[svc] # NoHost <=> Attributed(svc) # {}

\* the second half of C13 alone fails: of two endpoints that give an entry,
\* the later one stays
C13_FirstWins ==
    Scanned =>
        \A svc \in Range(services) :
            service_endpoints[svc] # NoHost =>
                service_endpoints[svc] =
                    response[First({n \in Attributed(svc) :
                                      Matches(svc, response[n].ServiceName)})].DnsName

\* every profile of the static list has been through the loop
AllProcessed == Len(phist.discovered) = Len(profile_names)

(***************************************************************************)
(* C18: the provisioner writes the configuration file at most once, and    *)
(* only after every profile has been processed; when the enumeration of    *)
(* endpoints fails for a profile the run ends there and the file is as it  *)
(* was before the run.                                                     *)
(***************************************************************************)
C18_WriteOnceAtEnd ==
    /\ phist.writes <= 1
    /\ phist.writes = 1 => AllProcessed /\ ppc = "done"
    /\ phist.writes = 0 => disk = phist.before
    /\ ppc = "raised" => disk = phist.before

\* the enumeration failed for the second profile: the section of the first
\* is in the parser and not in the file
C18_Witness ==
    /\ ppc = "raised"
    /\ Len(phist.discovered) = 1
    /\ config # read(disk)
    /\ disk = phist.before
    /\ disk.kind = "file"

(***************************************************************************)
(* The run up to the return of wait_for_restore, under the fairness of     *)
(* SpecLive, over the buckets of Init with one version per key (versions   *)
(* and sizes play no part before the copy phase).                          *)
(***************************************************************************)
PollInit ==
    /\ Init
    /\ versioning = "Off"
    /\ Cardinality(bucket) = Cardinality(Keys)
    /\ \A k \in Keys : size[k] = COPY_LIMIT

NextPoll ==
    \/ get_glacier_objects
    \/ initiate_restore
    \/ s3_restore_completes
    \/ wait_for_restore_check
    \/ wait_for_restore_sweep_end

SpecPoll ==
    /\ PollInit /\ [][NextPoll]_vars
    /\ WF_vars(NextPoll)
    /\ WF_vars(s3_restore_completes)
    /\ \A k \in Keys : SF_vars(marks(k))

\* every candidate key has a restore that S3 accepted or finished
AllRestorable == \A k \in Candidates : restore[k] # "absent"

(***************************************************************************)
(* C14: when the status check of every candidate key comes to succeed and  *)
(* to report a completed restore, wait_for_restore returns and the run     *)
(* reaches the copy phase; the run reaches the copy phase only when every  *)
(* candidate key has reported a completed restore, so a key that never     *)
(* does keeps every key from being copied.                                 *)
(***************************************************************************)
C14_PollLiveness ==
    /\ (pc = "wait" /\ AllRestorable) ~> (pc = "transition")
    /\ [](pc = "transition" => Candidates \subseteq hist.observed)
    /\ []((pc = "wait" /\ ~AllRestorable) => [](pc = "wait"))

\* the wait ended after a sweep that had to sleep
C14_Witness ==
    /\ pc = "transition"
    /\ "sleep" \in hist.calls
    /\ Cardinality(Candidates) = 2
    /\ "restore" \in hist.failed \/ "wait" \in hist.failed

\* the size wait_for_restore put in the dict for key k
SizeOf(k) == LET n == CHOOSE m \in 1..Len(restored) : restored[m].key = k
             IN restored[n].size

\* complete_multipart_upload was called for k
CompleteCalled(k) ==
    \/ hist.copyPath[k] = "multipart" /\ hist.copyOK[k] = "ok"
    \/ hist.mpFail[k] = "complete"

(***************************************************************************)
(* C15: complete_multipart_upload for k is called only after each of the   *)
(* ceil(S/C) part copies of the upload returned, with a part list of       *)
(* exactly those parts, each with the tag S3 returned for it, numbered     *)
(* 1..n in order with no gap or duplicate; the part copies are issued one  *)
(* at a time in ascending order.                                           *)
(***************************************************************************)
C15_CompleteWithAllParts ==
    /\ \A k \in Keys :
          CompleteCalled(k) =>
              LET plist == hist.completeWith[k]
                  up    == hist.uploadedThen[k]
                  n     == Ceil(SizeOf(k), PART_SIZE)
              IN /\ Len(plist) = n /\ Len(up) = n
                 /\ \A m \in 1..n :
                       /\ plist[m].PartNumber = m
                       /\ up[m].PartNumber = m
                       /\ plist[m].ETag = up[m].ETag
    /\ \A k \in Keys : hist.mpFail[k] \in {"create", "part"} => ~CompleteCalled(k)
    /\ pc = "mp_part" =>
          /\ Len(mp.parts) = mp.j /\ Len(s3upload.parts) = mp.j
          /\ \A m \in 1..mp.j : s3upload.parts[m].PartNumber = m
                                /\ mp.parts[m].PartNumber = m

C15_Witness ==
    \E k \in Keys :
        /\ hist.copyPath[k] = "multipart" /\ hist.copyOK[k] = "ok"
        /\ Len(hist.completeWith[k]) = Ceil(SizeOf(k), PART_SIZE)
        /\ Len(hist.completeWith[k]) > 1

\* the phase of the run: discovery, restore requests, polling, copying, end
Phase ==
    IF pc = "discover" THEN 0
    ELSE IF pc = "initiate" THEN 1
    ELSE IF pc = "wait" THEN 2
    ELSE IF pc \in Copying THEN 3
    ELSE 4

\* the calls of the copy phase
CopyCalls ==
    {"copy_object", "create_multipart_upload", "upload_part_copy",
     "complete_multipart_upload", "abort_multipart_upload",
     "list_object_versions", "delete_object"}

\* a restore request is issued in this step
RequestsRestore == \E k \in Keys : hist'.restoreReqs[k] # hist.restoreReqs[k]

\* a status check of the poll is issued in this step
PollsStatus == hist'.checked \ hist.checked # {}

\* a call of the copy phase is issued in this step
CopiesOrCleans ==
    \/ \E k \in Keys : \/ hist'.copyPath[k] # hist.copyPath[k]
                       \/ hist'.copyOK[k] # hist.copyOK[k]
                       \/ hist'.cleaned[k] # hist.cleaned[k]
                       \/ hist'.mpFail[k] # hist.mpFail[k]
    \/ s3upload' # s3upload
    \/ hist'.deleted # hist.deleted
    \/ hist'.aborted # hist.aborted

(***************************************************************************)
(* C16: the run is phased with barriers: every restore request is issued   *)
(* before the first poll sweep; no copy, multipart step or version delete  *)
(* is issued for any key until every candidate key has been confirmed      *)
(* restored; in the copy phase the cleanup of k is issued after the copy   *)
(* of k and before the copy of the next key.                               *)
(***************************************************************************)
C16_PhasedRun ==
    /\ [][/\ Phase' >= Phase
          /\ RequestsRestore => Phase = 1
          /\ PollsStatus => Phase = 2
          /\ CopiesOrCleans => Phase = 3 /\ Candidates \subseteq hist.observed]_vars
    /\ [](CopyCalls \cap hist.calls # {} => Candidates \subseteq hist.observed)
    /\ [](\A k \in Keys : hist.cleaned[k] # "none" => hist.copyOK[k] # "none")
    /\ [](\A m, n \in 1..Len(restored) :
              m < n /\ hist.copyPath[restored[n].key] # "none"
                  => Processed(restored[m].key))

C16_Witness ==
    /\ pc = "done"
    /\ Len(restored) = 2
    /\ \A k \in Keys : Cardinality(hist.restoreReqs[k]) = 1
    /\ "sleep" \in hist.calls
    /\ \A k \in Keys : hist.cleaned[k] # "none"

(***************************************************************************)
(* C17: cleanup_glacier_versions for k never deletes the latest version of *)
(* a key, never deletes a version whose class is not GLACIER or            *)
(* DEEP_ARCHIVE, and every delete it issues targets a version of k itself, *)
(* never one of another key such as a key that has k as a prefix.          *)
(***************************************************************************)
C17_CleanupFrame ==
    /\ \A v \in hist.removed : ~v.latest /\ v.cls \in Cold
    /\ \A d \in hist.deleted : d.listed.key = d.key

\* the three parts of C17, each alone
C17_NeverLatest == \A v \in hist.removed : ~v.latest

C17_OnlyCold == \A v \in hist.removed : v.cls \in Cold

C17_OwnVersions == \A d \in hist.deleted : d.listed.key = d.key

\* what does hold: only versions of k are removed, and every version that a
\* delete call names was listed as not the latest and cold
C17_ListedStale ==
    /\ \A d \in hist.deleted : IsStale(d.listed)
    /\ \A v \in hist.removed : \E d \in hist.deleted : v.key = d.key

====
